---- MODULE Spec2Model ----
(***************************************************************************)
(* The order-fulfilment saga of the microserv repository: the Order        *)
(* Ledger (services/order_service.py), the Payment Processor               *)
(* (services/payment_service.py) and the broker queues between them.       *)
(*                                                                         *)
(* Abstractions, all stated where they are made:                           *)
(*  - money is counted in thousandths of a currency unit (9.99 = 9990), so *)
(*    that the seeded subtotals (total * 0.9) are whole numbers;           *)
(*  - uuid4() event ids and datetime.now() stamps are the tokens "uuid4"   *)
(*    and "now": no handler of the repository reads either;                *)
(*  - order ids are the counter values (ORD1000 is 1000), payment ids are  *)
(*    fresh naturals (payment id 0 is an id no service generated);         *)
(*  - created_at / updated_at are left out of the stored records;         *)
(*  - the broker connection is up: basic_publish hands the event over.     *)
(***************************************************************************)
EXTENDS Integers, Sequences, FiniteSets, TLC

(***************************************************************************)
(* Bounds of the model.                                                    *)
(***************************************************************************)
MaxNewOrders == 1      \* CreateOrder calls beyond the two seeded orders
MaxNewPayments == 1    \* payment records beyond the seeded ones
MaxCharges == 2        \* the same, where the Payment Processor runs alone
MaxListed == 2         \* CreateOrder calls where ListOrders is exercised
MaxNotified == 1       \* notifications stored beside the saga
MaxInbox == 102        \* notifications stored where one inbox fills up
MaxShown == 12         \* notifications stored where inboxes are read

(***************************************************************************)
(* Program constants.                                                      *)
(***************************************************************************)
FirstOrderId == 1000   \* self.order_counter = 1000
ShippingFee == 9990    \* 9.99
FreeShippingFrom == 100000  \* subtotal < 100
CardDigits == 16       \* len(card_number.replace(" ", "")) < 16
KeepLast == 100        \* self.notifications[user_id][-100:]
DefaultLimit == 10     \* request.limit if request.limit > 0 else 10
DefaultShown == 10     \* the same in GetUserNotifications

\* serve() builds the servicer twice: the one registered with the gRPC
\* server and the one built only to log len(...).  Both start a consumer.
Inst == {"serving", "shadow"}

valid_statuses == {"PENDING", "PROCESSING", "SHIPPED", "DELIVERED", "CANCELLED"}

None == "None"

VARIABLES
    orders,            \* orders[i]: OrderService.orders of instance i
    order_counter,     \* order_counter[i]: OrderService.order_counter
    payments,          \* payments[i]: PaymentService.payments of instance i
    next_payment_id,   \* the next fresh payment id (uuid4)
    order_payments,    \* queue 'order_payments'  (order_events, order.created)
    payment_results,   \* queue 'payment_results' (payment_events, payment.*)
    lastOp,            \* the last handler run: its input, answer and publishes
    all_notifications, \* queue 'all_notifications' (order.*, payment.*)
    all_notifications_declared,  \* NotificationService has declared and bound it
    notifications,     \* NotificationService.notifications: user -> list
    next_notification_id,        \* the next fresh notification id (uuid4)
    threads,           \* the handlers running statement by statement
    event_log          \* the lifecycle events those handlers published, in order

vars == <<orders, order_counter, payments, next_payment_id,
          order_payments, payment_results, lastOp,
          all_notifications, all_notifications_declared, notifications,
          next_notification_id, threads, event_log>>

notifyVars == <<all_notifications, all_notifications_declared, notifications,
                next_notification_id>>
raceVars == <<threads, event_log>>

ledgerVars == <<orders, order_counter>>
paymentVars == <<payments, next_payment_id>>

(***************************************************************************)
(* Inputs of the RPCs.                                                     *)
(***************************************************************************)
Users == {"u1"}
PaymentMethods == {"CREDIT_CARD"}

Item(product_id, product_name, price, quantity, total) ==
    [product_id |-> product_id, product_name |-> product_name,
     price |-> price, quantity |-> quantity, total |-> total]

\* one item of price 10 and quantity 2
ItemLists == { << Item("prod_001", "iPhone 13", 10000, 2, 20000) >> }

\* the item lists of the pricing cases: the list above, a subtotal of
\* exactly 100.00, two items with a subtotal above it, an item whose total
\* is not price * quantity, no item, an item of quantity 0, one of
\* quantity -1 (the fields are numbers of the request, taken as sent)
ItemListInputs ==
    ItemLists \cup
    { << Item("prod_003", "AirPods Pro", 50000, 2, 100000) >>,
      << Item("prod_001", "iPhone 13", 10000, 2, 20000),
         Item("prod_002", "MacBook Pro", 90000, 1, 90000) >>,
      << Item("prod_001", "iPhone 13", 10000, 2, 5000) >>,
      << >>,
      << Item("prod_001", "iPhone 13", 10000, 0, 0) >>,
      << Item("prod_001", "iPhone 13", 10000, -1, -10000) >> }

\* the ids the callers name: the seeded DELIVERED order and the ids
\* CreateOrder can hand out (an id not handed out yet is an unknown order).
\* The seeded PROCESSING order ORD1001 is stored and never named.
OrderIdInputs == {FirstOrderId} \cup
                 ((FirstOrderId + 2) .. (FirstOrderId + 1 + MaxNewOrders))

AmountInputs == {31990}

\* card numbers as character sequences: 16 digits, 16 digits in groups of
\* four, 15 digits, 15 digits and a space (16 characters), none
Digits(n) == [k \in 1 .. n |-> "4"]
CardInputs == { Digits(16),
                Digits(4) \o <<" ">> \o Digits(4) \o <<" ">> \o Digits(4) \o <<" ">> \o Digits(4),
                Digits(15),
                Digits(15) \o <<" ">>,
                << >> }

\* and 15 digits written in groups with dashes (18 characters)
DashedCard ==
    Digits(4) \o <<"-">> \o Digits(4) \o <<"-">> \o Digits(4) \o <<"-">> \o Digits(3)
CardInputsAll == CardInputs \cup {DashedCard}

\* the payment ids the callers of RefundPayment name: a seeded payment of
\* the serving instance, one of the other instance, and the fresh ids
PaymentIdInputs == {1, 3} \cup (5 .. (4 + MaxCharges))

StatusInputs == valid_statuses \cup {"CONFIRMED"}

\* the requests of ListOrders: the owners (one owns a seeded order, one owns
\* nothing a caller creates), the status filter ("" is no filter), page and
\* limit around their defaults
ListUsers == {"u1", "sample_user_1"}
ListOwnerInputs == ListUsers \cup {"sample_user_2"}
ListStatusInputs == {"", "PENDING", "CANCELLED", "DELIVERED"}
PageInputs == -1 .. 3
LimitInputs == -1 .. 2

\* what CartClient.get_cart hands the gateway: {'error': ...} or the cart
CartResults ==
    { [error |-> "Cart not found"] } \cup
    { [cart_id |-> "CART_" \o u, user_id |-> u, items |-> l] :
          u \in Users, l \in ItemLists }

Reasons == {"Changed my mind"}

(***************************************************************************)
(* The event envelopes.                                                    *)
(***************************************************************************)
\* OrderService.send_order_event: the envelope it builds
OrderEvent(order_id, user_id, event_type, status, reason) ==
    [event_id |-> "uuid4", event_type |-> event_type, timestamp |-> "now",
     order_id |-> order_id, user_id |-> user_id, status |-> status,
     reason |-> reason]

\* PaymentService.send_payment_event: the envelope it builds
PaymentEvent(payment_id, order_id, success, amount) ==
    [event_id |-> "uuid4",
     event_type |-> IF success THEN "payment.success" ELSE "payment.failed",
     timestamp |-> "now", payment_id |-> payment_id, order_id |-> order_id,
     amount |-> amount, success |-> success]

\* queue_bind(exchange='order_events', queue='order_payments',
\*            routing_key='order.created')
RouteOrderPayments(events) ==
    { events[k] : k \in { n \in 1 .. Len(events) :
                              events[n].event_type = "order.created" } }

\* queue_bind(exchange='order_events', queue='all_notifications',
\*            routing_key='order.*') and the same for 'payment_events',
\* 'payment.*': every event the two services publish
RouteAllNotifications(events) == { events[k] : k \in 1 .. Len(events) }

\* queue_bind(exchange='payment_events', queue='payment_results',
\*            routing_key='payment.*')
RoutePaymentResults(events) ==
    { events[k] : k \in { n \in 1 .. Len(events) :
                              events[n].event_type \in {"payment.success", "payment.failed"} } }

(***************************************************************************)
(* Order Ledger.                                                           *)
(***************************************************************************)
SumTotals(items) ==
    LET RECURSIVE S(_)
        S(k) == IF k = 0 THEN 0 ELSE items[k].total + S(k - 1)
    IN S(Len(items))

\* OrderService._initialize_sample_data: one seeded order
SampleOrder(order_id, user_id, status, items, total_amount, address) ==
    [order_id |-> order_id, user_id |-> user_id, cart_id |-> "CART_" \o user_id,
     items |-> items,
     subtotal |-> (total_amount * 9) \div 10,
     tax |-> total_amount \div 10,
     shipping_cost |-> 0,
     total_amount |-> total_amount,
     status |-> status,
     shipping_address |-> address,
     payment_method |-> "CREDIT_CARD"]

sample_orders ==
    (FirstOrderId :>
        SampleOrder(FirstOrderId, "sample_user_1", "DELIVERED",
                    << Item("prod_001", "iPhone 13", 999990, 1, 999990) >>, 1099990, "123 Main St"))
    @@
    ((FirstOrderId + 1) :>
        SampleOrder(FirstOrderId + 1, "sample_user_2", "PROCESSING",
                    << Item("prod_002", "MacBook Pro", 1999990, 1, 1999990) >>, 2199990, "456 Oak Ave"))

\* An RPC's or handler's outcome: the new store, the gRPC status code and
\* the events handed to basic_publish.
Outcome(os, code, old_status, emitted) ==
    [orders |-> os, code |-> code, old_status |-> old_status, emitted |-> emitted]

\* OrderService.CreateOrder (the order it stores)
NewOrder(order_id, user_id, payment_method, items) ==
    LET subtotal == SumTotals(items)
        tax == subtotal \div 10
        shipping_cost == IF subtotal < FreeShippingFrom THEN ShippingFee ELSE 0
    IN [order_id |-> order_id, user_id |-> user_id, cart_id |-> "CART_" \o user_id,
        items |-> items,
        subtotal |-> subtotal,
        tax |-> tax,
        shipping_cost |-> shipping_cost,
        total_amount |-> subtotal + tax + shipping_cost,
        status |-> "PENDING",
        shipping_address |-> "Test Address",
        payment_method |-> payment_method]

\* OrderService.CreateOrder
CreateOrder(os, counter, user_id, payment_method, items) ==
    Outcome(counter :> NewOrder(counter, user_id, payment_method, items) @@ os,
            "OK", None,
            << OrderEvent(counter, user_id, "order.created", "PENDING", None) >>)

\* the event type UpdateOrderStatus publishes: f'order.{status.lower()}'
LowerStatus(status) ==
    CASE status = "PENDING" -> "pending"
      [] status = "PROCESSING" -> "processing"
      [] status = "SHIPPED" -> "shipped"
      [] status = "DELIVERED" -> "delivered"
      [] status = "CANCELLED" -> "cancelled"

\* UpdateOrderStatus recomputing total_amount from the items on the way
UpdateOrderStatus_Recomputes(os, order_id, status) ==
    IF order_id \notin DOMAIN os
    THEN Outcome(os, "NOT_FOUND", None, << >>)
    ELSE IF status \notin valid_statuses
    THEN Outcome(os, "INVALID_ARGUMENT", os[order_id].status, << >>)
    ELSE Outcome([os EXCEPT ![order_id].status = status,
                            ![order_id].total_amount = SumTotals(os[order_id].items)],
                 "OK", os[order_id].status,
                 << OrderEvent(order_id, os[order_id].user_id,
                               "order." \o LowerStatus(status), status, None) >>)

\* UpdateOrderStatus naming the event without lower()
UpdateOrderStatus_KeepsCase(os, order_id, status) ==
    IF order_id \notin DOMAIN os
    THEN Outcome(os, "NOT_FOUND", None, << >>)
    ELSE IF status \notin valid_statuses
    THEN Outcome(os, "INVALID_ARGUMENT", os[order_id].status, << >>)
    ELSE Outcome([os EXCEPT ![order_id].status = status],
                 "OK", os[order_id].status,
                 << OrderEvent(order_id, os[order_id].user_id,
                               "order." \o status, status, None) >>)

\* UpdateOrderStatus writing whatever status it is sent
UpdateOrderStatus_AnyStatus(os, order_id, status) ==
    IF order_id \notin DOMAIN os
    THEN Outcome(os, "NOT_FOUND", None, << >>)
    ELSE Outcome([os EXCEPT ![order_id].status = status],
                 "OK", os[order_id].status, << >>)

\* OrderService.UpdateOrderStatus
UpdateOrderStatus(os, order_id, status) ==
    IF order_id \notin DOMAIN os
    THEN Outcome(os, "NOT_FOUND", None, << >>)
    ELSE IF status \notin valid_statuses
    THEN Outcome(os, "INVALID_ARGUMENT", os[order_id].status, << >>)
    ELSE Outcome([os EXCEPT ![order_id].status = status],
                 "OK", os[order_id].status,
                 << OrderEvent(order_id, os[order_id].user_id,
                               "order." \o LowerStatus(status),
                               status, None) >>)

\* CancelOrder without the check of the DELIVERED status
CancelOrder_NoDeliveredCheck(os, order_id, reason) ==
    IF order_id \notin DOMAIN os
    THEN Outcome(os, "NOT_FOUND", None, << >>)
    ELSE Outcome([os EXCEPT ![order_id].status = "CANCELLED"],
                 "OK", os[order_id].status,
                 << OrderEvent(order_id, os[order_id].user_id,
                               "order.cancelled", "CANCELLED", reason) >>)

\* CancelOrder publishing order.cancelled without the caller's reason
CancelOrder_DropsReason(os, order_id, reason) ==
    IF order_id \notin DOMAIN os
    THEN Outcome(os, "NOT_FOUND", None, << >>)
    ELSE IF os[order_id].status = "DELIVERED"
    THEN Outcome(os, "FAILED_PRECONDITION", "DELIVERED", << >>)
    ELSE Outcome([os EXCEPT ![order_id].status = "CANCELLED"],
                 "OK", os[order_id].status,
                 << OrderEvent(order_id, os[order_id].user_id,
                               "order.cancelled", "CANCELLED", None) >>)

\* CancelOrder removing the order it cancels
CancelOrder_Deletes(os, order_id, reason) ==
    IF order_id \notin DOMAIN os
    THEN Outcome(os, "NOT_FOUND", None, << >>)
    ELSE IF os[order_id].status = "DELIVERED"
    THEN Outcome(os, "FAILED_PRECONDITION", "DELIVERED", << >>)
    ELSE Outcome([o \in DOMAIN os \ {order_id} |-> os[o]],
                 "OK", os[order_id].status,
                 << OrderEvent(order_id, os[order_id].user_id,
                               "order.cancelled", "CANCELLED", reason) >>)

\* OrderService.CancelOrder
CancelOrder(os, order_id, reason) ==
    IF order_id \notin DOMAIN os
    THEN Outcome(os, "NOT_FOUND", None, << >>)
    ELSE IF os[order_id].status = "DELIVERED"
    THEN Outcome(os, "FAILED_PRECONDITION", "DELIVERED", << >>)
    ELSE Outcome([os EXCEPT ![order_id].status = "CANCELLED"],
                 "OK", os[order_id].status,
                 << OrderEvent(order_id, os[order_id].user_id,
                               "order.cancelled", "CANCELLED", reason) >>)

\* OrderService.send_order_event around a handler's publish: when
\* basic_publish raises (no channel, connection lost) the error is logged
\* and the handler goes on, the event is not sent again
send_order_event(out, published) ==
    [out EXCEPT !.emitted = IF published THEN @ ELSE << >>]

\* OrderService.GetOrder
GetOrder(os, order_id) ==
    IF order_id \notin DOMAIN os
    THEN [code |-> "NOT_FOUND", response |-> None]
    ELSE [code |-> "OK", response |-> os[order_id]]

\* the keys of the orders dict in insertion order: the ids are handed out
\* in ascending order
RECURSIVE InsertionOrder(_)
InsertionOrder(ids) ==
    IF ids = {} THEN << >>
    ELSE LET first == CHOOSE o \in ids : \A p \in ids : o <= p
         IN << first >> \o InsertionOrder(ids \ {first})

\* a Python slice seq[start : stop] with 0 <= start
PySlice(seq, start, stop) ==
    SubSeq(seq, start + 1, IF stop < Len(seq) THEN stop ELSE Len(seq))

\* ListOrders counting pages from 0
ListOrders_ZeroBasedPage(os, user_id, status, page_in, limit_in) ==
    LET all == InsertionOrder(DOMAIN os)
        owned == SelectSeq(all, LAMBDA o : os[o].user_id = user_id)
        user_orders == IF status # ""
                       THEN SelectSeq(owned, LAMBDA o : os[o].status = status)
                       ELSE owned
        page == IF page_in > 0 THEN page_in ELSE 1
        limit == IF limit_in > 0 THEN limit_in ELSE DefaultLimit
        start_idx == page * limit
        paginated == PySlice(user_orders, start_idx, start_idx + limit)
    IN [orders |-> [k \in 1 .. Len(paginated) |-> os[paginated[k]]],
        total |-> Len(user_orders), page |-> page, limit |-> limit]

\* OrderService.ListOrders: the response
ListOrders(os, user_id, status, page_in, limit_in) ==
    LET all == InsertionOrder(DOMAIN os)
        owned == SelectSeq(all, LAMBDA o : os[o].user_id = user_id)
        user_orders == IF status # ""
                       THEN SelectSeq(owned, LAMBDA o : os[o].status = status)
                       ELSE owned
        page == IF page_in > 0 THEN page_in ELSE 1
        limit == IF limit_in > 0 THEN limit_in ELSE DefaultLimit
        start_idx == (page - 1) * limit
        paginated == PySlice(user_orders, start_idx, start_idx + limit)
    IN [orders |-> [k \in 1 .. Len(paginated) |-> os[paginated[k]]],
        total |-> Len(user_orders), page |-> page, limit |-> limit]

\* the gateway's create_order going on without a cart
create_order_IgnoresCartError(os, counter, user_id, payment_method, cart_result) ==
    IF "error" \in DOMAIN cart_result
    THEN CreateOrder(os, counter, user_id, payment_method, << >>)
    ELSE CreateOrder(os, counter, user_id, payment_method, cart_result.items)

\* gateway/app.py create_order (POST /api/orders): the cart, then CreateOrder
create_order(os, counter, user_id, payment_method, cart_result) ==
    IF "error" \in DOMAIN cart_result
    THEN Outcome(os, "NOT_FOUND", None, << >>)       \* 404 'Cart not found'
    ELSE CreateOrder(os, counter, user_id, payment_method, cart_result.items)

\* OrderService.handle_payment_success
handle_payment_success(os, event_data) ==
    LET order_id == event_data.order_id
    IN IF order_id \in DOMAIN os
       THEN Outcome([os EXCEPT ![order_id].status = "PROCESSING"],
                    "OK", os[order_id].status,
                    << OrderEvent(order_id, os[order_id].user_id,
                                  "order.processing", "PROCESSING", None) >>)
       ELSE Outcome(os, "OK", None, << >>)

\* handle_payment_failure announcing the cancellation of an order it
\* does not hold
handle_payment_failure_AnnouncesUnknown(os, event_data) ==
    LET order_id == event_data.order_id
    IN IF order_id \in DOMAIN os
       THEN Outcome([os EXCEPT ![order_id].status = "CANCELLED"],
                    "OK", os[order_id].status,
                    << OrderEvent(order_id, os[order_id].user_id,
                                  "order.cancelled", "CANCELLED", "Payment failed") >>)
       ELSE Outcome(os, "OK", None,
                    << OrderEvent(order_id, None, "order.cancelled", "CANCELLED",
                                  "Payment failed") >>)

\* handle_payment_failure doing what handle_payment_success does
handle_payment_failure_AsSuccess(os, event_data) ==
    handle_payment_success(os, event_data)

\* OrderService.handle_payment_failure
handle_payment_failure(os, event_data) ==
    LET order_id == event_data.order_id
    IN IF order_id \in DOMAIN os
       THEN Outcome([os EXCEPT ![order_id].status = "CANCELLED"],
                    "OK", os[order_id].status,
                    << OrderEvent(order_id, os[order_id].user_id,
                                  "order.cancelled", "CANCELLED", "Payment failed") >>)
       ELSE Outcome(os, "OK", None, << >>)

\* start_consuming_payment_results.payment_result_callback
payment_result_callback(os, event) ==
    IF ~ ({"event_type", "order_id"} \subseteq DOMAIN event)
    THEN Outcome(os, "dropped", None, << >>)     \* KeyError, logged
    ELSE IF event.event_type = "payment.success"
    THEN handle_payment_success(os, event)
    ELSE IF event.event_type = "payment.failed"
    THEN handle_payment_failure(os, event)
    ELSE Outcome(os, "OK", None, << >>)

(***************************************************************************)
(* Payment Processor.                                                      *)
(***************************************************************************)
\* PaymentService._initialize_sample_data: one seeded payment
SamplePayment(payment_id, order_id, user_id, amount, payment_method) ==
    [payment_id |-> payment_id, order_id |-> order_id, user_id |-> user_id,
     amount |-> amount, status |-> "SUCCESS", transaction_id |-> "TXN",
     payment_method |-> payment_method]

\* the two seeded payments, under the fresh ids first and first + 1
sample_payments(first) ==
    (first :> SamplePayment(first, FirstOrderId, "sample_user_1", 1099990, "CREDIT_CARD"))
    @@
    ((first + 1) :> SamplePayment(first + 1, FirstOrderId + 1, "sample_user_2", 2199990, "PAYPAL"))

PaymentOutcome(ps, code, emitted) ==
    [payments |-> ps, code |-> code, old_status |-> None, emitted |-> emitted]

\* request.card_number.replace(" ", "")
StripSpaces(card_number) == SelectSeq(card_number, LAMBDA c : c # " ")

\* PaymentService.ProcessPayment
ProcessPayment(ps, payment_id, order_id, user_id, amount, payment_method, card_number) ==
    IF card_number = << >> \/ Len(StripSpaces(card_number)) < CardDigits
    THEN PaymentOutcome(ps, "INVALID_ARGUMENT", << >>)
    ELSE LET payment_success == TRUE
             payment == [payment_id |-> payment_id, order_id |-> order_id,
                         user_id |-> user_id, amount |-> amount,
                         status |-> IF payment_success THEN "SUCCESS" ELSE "FAILED",
                         transaction_id |-> "TXN",
                         payment_method |-> payment_method]
         IN PaymentOutcome(payment_id :> payment @@ ps, "OK",
                           << PaymentEvent(payment_id, order_id, payment_success, amount) >>)

\* process_payment_from_event publishing payment.success whatever the draw
process_payment_from_event_AlwaysSuccessEvent(ps, payment_id, event_data, payment_success) ==
    IF ~ ({"order_id", "user_id", "total_amount"} \subseteq DOMAIN event_data)
    THEN PaymentOutcome(ps, "dropped", << >>)
    ELSE LET payment == [payment_id |-> payment_id,
                         order_id |-> event_data.order_id,
                         user_id |-> event_data.user_id,
                         amount |-> event_data.total_amount,
                         status |-> IF payment_success THEN "SUCCESS" ELSE "FAILED",
                         transaction_id |-> "TXN",
                         payment_method |->
                             IF "payment_method" \in DOMAIN event_data
                             THEN event_data.payment_method ELSE "CREDIT_CARD"]
         IN PaymentOutcome(payment_id :> payment @@ ps, "OK",
                           << PaymentEvent(payment_id, event_data.order_id,
                                           TRUE, event_data.total_amount) >>)

\* PaymentService.process_payment_from_event; payment_success is the draw
\* random.random() > 0.1
process_payment_from_event(ps, payment_id, event_data, payment_success) ==
    IF ~ ({"order_id", "user_id", "total_amount"} \subseteq DOMAIN event_data)
    THEN PaymentOutcome(ps, "dropped", << >>)     \* KeyError, logged
    ELSE LET payment == [payment_id |-> payment_id,
                         order_id |-> event_data.order_id,
                         user_id |-> event_data.user_id,
                         amount |-> event_data.total_amount,
                         status |-> IF payment_success THEN "SUCCESS" ELSE "FAILED",
                         transaction_id |-> "TXN",
                         payment_method |->
                             IF "payment_method" \in DOMAIN event_data
                             THEN event_data.payment_method ELSE "CREDIT_CARD"]
         IN PaymentOutcome(payment_id :> payment @@ ps, "OK",
                           << PaymentEvent(payment_id, event_data.order_id,
                                           payment_success, event_data.total_amount) >>)

\* start_consuming.order_created_callback
order_created_callback(ps, payment_id, event, payment_success) ==
    IF "order_id" \notin DOMAIN event
    THEN PaymentOutcome(ps, "dropped", << >>)     \* KeyError, logged
    ELSE process_payment_from_event(ps, payment_id, event, payment_success)

\* PaymentService.GetPayment
GetPayment(ps, payment_id) ==
    IF payment_id \notin DOMAIN ps
    THEN [code |-> "NOT_FOUND", response |-> None]
    ELSE [code |-> "OK", response |-> ps[payment_id]]

\* RefundPayment refunding whatever the payment's status is
RefundPayment_AnyStatus(ps, payment_id, reason) ==
    IF payment_id \notin DOMAIN ps
    THEN [payments |-> ps, code |-> "NOT_FOUND", old_status |-> None,
          emitted |-> << >>]
    ELSE [payments |-> [ps EXCEPT ![payment_id].status = "REFUNDED"],
          code |-> "OK", old_status |-> ps[payment_id].status,
          emitted |-> << >>]

\* RefundPayment giving the amount back on the record too
RefundPayment_ZeroesAmount(ps, payment_id, reason) ==
    IF payment_id \notin DOMAIN ps
    THEN [payments |-> ps, code |-> "NOT_FOUND", old_status |-> None,
          emitted |-> << >>]
    ELSE IF ps[payment_id].status # "SUCCESS"
    THEN [payments |-> ps, code |-> "FAILED_PRECONDITION",
          old_status |-> ps[payment_id].status, emitted |-> << >>]
    ELSE [payments |-> [ps EXCEPT ![payment_id].status = "REFUNDED",
                                  ![payment_id].amount = 0],
          code |-> "OK", old_status |-> ps[payment_id].status,
          emitted |-> << >>]

\* PaymentService.RefundPayment
RefundPayment(ps, payment_id, reason) ==
    IF payment_id \notin DOMAIN ps
    THEN [payments |-> ps, code |-> "NOT_FOUND", old_status |-> None,
          emitted |-> << >>]
    ELSE IF ps[payment_id].status # "SUCCESS"
    THEN [payments |-> ps, code |-> "FAILED_PRECONDITION",
          old_status |-> ps[payment_id].status, emitted |-> << >>]
    ELSE [payments |-> [ps EXCEPT ![payment_id].status = "REFUNDED"],
          code |-> "OK", old_status |-> ps[payment_id].status,
          emitted |-> << >>]

(***************************************************************************)
(* Notification Dispatcher.  The stored metadata and created_at, which no  *)
(* RPC returns, are left out of a notification.                            *)
(***************************************************************************)
\* event_data.get(key, default)
Get(event_data, key, default) ==
    IF key \in DOMAIN event_data THEN event_data[key] ELSE default

\* NotificationService._map_event_to_notification_type
map_event_to_notification_type(event_type) ==
    CASE event_type = "order.created" -> "ORDER_CREATED"
      [] event_type = "payment.success" -> "PAYMENT_SUCCESS"
      [] event_type = "payment.failed" -> "PAYMENT_FAILED"
      [] event_type = "order.cancelled" -> "ORDER_CANCELLED"
      [] event_type = "order.shipped" -> "ORDER_SHIPPED"
      [] event_type = "order.delivered" -> "ORDER_DELIVERED"
      [] OTHER -> "SYSTEM_NOTIFICATION"

\* NotificationService._create_notification_content: the title, and the
\* message as its wording and the order id it cites (0: none, '#None')
create_notification_content(event_type, event_data) ==
    CASE event_type = "order.created" ->
            [title |-> "Order Created Successfully!",
             message |-> <<"has been created and is being processed",
                           Get(event_data, "order_id", 0)>>]
      [] event_type = "payment.success" ->
            [title |-> "Payment Successful!",
             message |-> <<"has been processed successfully",
                           Get(event_data, "order_id", 0)>>]
      [] event_type = "payment.failed" ->
            [title |-> "Payment Failed",
             message |-> <<"failed. Please try again.",
                           Get(event_data, "order_id", 0)>>]
      [] event_type = "order.cancelled" ->
            [title |-> "Order Cancelled",
             message |-> <<"has been cancelled", Get(event_data, "order_id", 0)>>]
      [] OTHER ->
            [title |-> "System Notification",
             message |-> <<"Event: " \o event_type, 0>>]

\* what SendNotification and _store_notification build
Notification(notification_id, user_id, type, title, message) ==
    [notification_id |-> notification_id, user_id |-> user_id, type |-> type,
     title |-> title, message |-> message, sent |-> TRUE]

\* the list stored for a user ([] for a user without one)
Inbox(ns, user_id) == IF user_id \in DOMAIN ns THEN ns[user_id] ELSE << >>

\* NotificationService._store_notification
store_notification(ns, notification_id, user_id, type, title, message) ==
    LET appended == Append(Inbox(ns, user_id),
                           Notification(notification_id, user_id, type, title, message))
        kept == IF Len(appended) > KeepLast
                THEN SubSeq(appended, Len(appended) - KeepLast + 1, Len(appended))
                ELSE appended
    IN (user_id :> kept) @@ ns

\* NotificationService.process_event_and_notify
process_event_and_notify(ns, notification_id, event_data) ==
    LET event_type == Get(event_data, "event_type", "")
        given == Get(event_data, "user_id", None)
        user_id == IF given = None /\ "order_id" \in DOMAIN event_data
                   THEN "unknown_user" ELSE given
        content == create_notification_content(event_type, event_data)
    IN store_notification(ns, notification_id, user_id,
                          map_event_to_notification_type(event_type),
                          content.title, content.message)

\* start_consuming.notification_callback; a body json.loads rejects is the
\* record [unparseable |-> TRUE]
notification_callback(ns, notification_id, body) ==
    IF "event_type" \notin DOMAIN body
    THEN [notifications |-> ns, code |-> "dropped"]     \* logged
    ELSE [notifications |-> process_event_and_notify(ns, notification_id, body),
          code |-> "OK"]

\* NotificationService.SendNotification
SendNotification(ns, notification_id, request) ==
    (request.user_id :>
        Append(Inbox(ns, request.user_id),
               Notification(notification_id, request.user_id, request.type,
                            request.title, request.message)))
    @@ ns

\* GetUserNotifications taking offset for a page number
GetUserNotifications_OffsetIsPage(ns, user_id, limit_in, offset_in) ==
    LET user_notifications == Inbox(ns, user_id)
        limit == IF limit_in > 0 THEN limit_in ELSE DefaultShown
        offset == IF offset_in >= 0 THEN offset_in ELSE 0
    IN [notifications |-> PySlice(user_notifications, offset * limit,
                                  offset * limit + limit),
        total |-> Len(user_notifications)]

\* NotificationService.GetUserNotifications
GetUserNotifications(ns, user_id, limit_in, offset_in) ==
    LET user_notifications == Inbox(ns, user_id)
        limit == IF limit_in > 0 THEN limit_in ELSE DefaultShown
        offset == IF offset_in >= 0 THEN offset_in ELSE 0
    IN [notifications |-> PySlice(user_notifications, offset, offset + limit),
        total |-> Len(user_notifications)]

\* the consumer of 'all_notifications' taking from 'payment_results' too
notifier_consume_AlsoPaymentResults(event, redeliver, queue, results) ==
    [all_notifications |-> IF redeliver THEN queue ELSE queue \ {event},
     payment_results |-> results \ {event}]

\* basic_consume(queue='all_notifications', auto_ack=True): the message
\* leaves that queue, and the queue of the Order Ledger is not touched
notifier_consume(event, redeliver, queue, results) ==
    [all_notifications |-> IF redeliver THEN queue ELSE queue \ {event},
     payment_results |-> results]

(***************************************************************************)
(* The broker.  The exchanges are durable topics of a shared broker: the  *)
(* queues also receive what other clients publish.  ExternalOrderCreated   *)
(* is an order.created envelope with the payload the Payment Processor's   *)
(* handler reads (order_id, user_id, total_amount, payment_method).        *)
(***************************************************************************)
ExternalOrderCreated(order_id, user_id, total_amount, payment_method) ==
    [event_id |-> "uuid4", event_type |-> "order.created", timestamp |-> "now",
     order_id |-> order_id, user_id |-> user_id,
     total_amount |-> total_amount, payment_method |-> payment_method]

ExternalEvents ==
    { ExternalOrderCreated(o, u, a, m) :
        o \in {FirstOrderId, FirstOrderId + 2}, u \in Users, a \in AmountInputs,
        m \in PaymentMethods }

\* What another client publishes that no consumer can use: an order.created
\* whose body is not JSON, a payment.failed without an order id.  Each goes
\* where its routing key is bound.
Malformed ==
    { [routing_key |-> "order.created", body |-> [unparseable |-> TRUE]],
      [routing_key |-> "payment.failed",
       body |-> [event_id |-> "uuid4", event_type |-> "payment.failed",
                 timestamp |-> "now"]] }

\* the requests of SendNotification
NotificationRequests ==
    { [user_id |-> "u1", type |-> "SYSTEM_NOTIFICATION", title |-> "Hello",
       message |-> <<"Welcome", 0>>] }

\* where one inbox fills up: one order.created event of u1, and the request
\* of a caller sending u1 a notification of the same wording
InboxEvents ==
    { ExternalOrderCreated(FirstOrderId, "u1", 31990, "CREDIT_CARD") }
InboxRequests ==
    { [user_id |-> "u1", type |-> "ORDER_CREATED",
       title |-> "Order Created Successfully!",
       message |-> <<"has been created and is being processed", FirstOrderId>>] }

\* the requests of GetUserNotifications: a user with an inbox and one
\* without, limit and offset around their defaults and past the end
ShownUsers == {"u1", "u2"}
ShownLimits == {-1, 0, 3, 11}
ShownOffsets == {-1, 0, 2, 11, 13}

\* the ids the callers of GetOrder name: those above, the other seeded
\* order, and an id CreateOrder never hands out
GetOrderIdInputs ==
    OrderIdInputs \cup {FirstOrderId + 1, FirstOrderId + 2 + MaxNewOrders}

\* payment records stored since construction (ids 1 .. 4 are the seeded ones)
NewPayments == next_payment_id - 5

Init ==
    /\ orders = [i \in Inst |-> sample_orders]
    /\ order_counter = [i \in Inst |-> FirstOrderId + 2]
    /\ payments = [i \in Inst |->
                       sample_payments(IF i = "serving" THEN 1 ELSE 3)]
    /\ next_payment_id = 5
    /\ order_payments = {}
    /\ payment_results = {}
    /\ lastOp = [op |-> "init", inst |-> "serving", order_id |-> 0, arg |-> None,
                 received |-> << >>, code |-> "OK", old_status |-> None,
                 emitted |-> << >>]
    /\ all_notifications = {}
    /\ all_notifications_declared = FALSE
    /\ notifications = << >>
    /\ next_notification_id = 1
    /\ threads = << >>
    /\ event_log = << >>

\* What the last step did: the handler that ran (op) on which instance, the
\* order id and argument of the request (the new status, the reason, the
\* items, the card number, the payment id), the message a consumer was handed
\* (received), the answer (code), the status the order had before
\* (old_status) and the events handed to basic_publish (emitted).
\* With it, what every step of the two services shares: the broker copies
\* what was published to 'all_notifications' once that queue is bound, and
\* nothing else of the Notification Dispatcher is touched.
Done(op, inst, order_id, arg, received, out) ==
    /\ lastOp' = [op |-> op, inst |-> inst, order_id |-> order_id, arg |-> arg,
                  received |-> received, code |-> out.code,
                  old_status |-> out.old_status, emitted |-> out.emitted]
    /\ all_notifications' =
           IF all_notifications_declared
           THEN all_notifications \cup RouteAllNotifications(out.emitted)
           ELSE all_notifications
    /\ UNCHANGED <<all_notifications_declared, notifications,
                   next_notification_id, raceVars>>

\* event['order_id'] where the envelope has one
OrderIdOf(event) == IF "order_id" \in DOMAIN event THEN event.order_id ELSE 0

\* gRPC CreateOrder on the serving instance, the request's user drawn from
\* users and its items from lists, while fewer than limit orders were created
CreateOrderCall(users, lists, limit) ==
    \E user_id \in users, payment_method \in PaymentMethods, items \in lists :
        LET counter == order_counter["serving"]
            out == CreateOrder(orders["serving"], counter, user_id,
                               payment_method, items)
        IN /\ counter < FirstOrderId + 2 + limit
           /\ orders' = [orders EXCEPT !["serving"] = out.orders]
           /\ order_counter' = [order_counter EXCEPT !["serving"] = counter + 1]
           /\ order_payments' = order_payments \cup RouteOrderPayments(out.emitted)
           /\ Done("CreateOrder", "serving", counter, items, << >>, out)
           /\ UNCHANGED <<paymentVars, payment_results>>

CreateOrderRequest(lists) == CreateOrderCall(Users, lists, MaxNewOrders)

\* POST /api/orders of the gateway, for the cart get_cart returned
GatewayCreateOrder ==
    \E user_id \in Users, payment_method \in PaymentMethods,
       cart_result \in CartResults :
        LET counter == order_counter["serving"]
            out == create_order(orders["serving"], counter, user_id,
                                payment_method, cart_result)
        IN /\ out.code = "OK" => counter < FirstOrderId + 2 + MaxNewOrders
           /\ orders' = [orders EXCEPT !["serving"] = out.orders]
           /\ order_counter' = [order_counter EXCEPT !["serving"] =
                                    IF out.code = "OK" THEN counter + 1 ELSE counter]
           /\ order_payments' = order_payments \cup RouteOrderPayments(out.emitted)
           /\ Done("create_order", "serving", counter, cart_result, << >>, out)
           /\ UNCHANGED <<paymentVars, payment_results>>

\* gRPC ListOrders on the serving instance
RpcListOrders ==
    \E user_id \in ListOwnerInputs, status \in ListStatusInputs,
       page \in PageInputs, limit \in LimitInputs :
        /\ lastOp' = [op |-> "ListOrders", inst |-> "serving", order_id |-> 0,
                      arg |-> [user_id |-> user_id, status |-> status,
                               page |-> page, limit |-> limit],
                      received |-> << >>, code |-> "OK", old_status |-> None,
                      emitted |-> << >>,
                      response |-> ListOrders(orders["serving"], user_id, status,
                                              page, limit)]
        /\ UNCHANGED <<ledgerVars, paymentVars, order_payments, payment_results,
                       notifyVars, raceVars>>

RpcCreateOrder == CreateOrderRequest(ItemLists)

\* gRPC UpdateOrderStatus on the serving instance
RpcUpdateOrderStatus ==
    \E order_id \in OrderIdInputs, status \in StatusInputs :
        LET out == UpdateOrderStatus(orders["serving"], order_id, status)
        IN /\ orders' = [orders EXCEPT !["serving"] = out.orders]
           /\ Done("UpdateOrderStatus", "serving", order_id, status, << >>, out)
           /\ UNCHANGED <<order_counter, paymentVars, order_payments,
                          payment_results>>

\* gRPC CancelOrder on the serving instance
RpcCancelOrder ==
    \E order_id \in OrderIdInputs, reason \in Reasons :
        LET out == CancelOrder(orders["serving"], order_id, reason)
        IN /\ orders' = [orders EXCEPT !["serving"] = out.orders]
           /\ Done("CancelOrder", "serving", order_id, reason, << >>, out)
           /\ UNCHANGED <<order_counter, paymentVars, order_payments,
                          payment_results>>

\* gRPC ProcessPayment on the serving instance, the card drawn from cards,
\* while fewer than limit payment records have been stored
ProcessPaymentRequest(cards, limit) ==
    \E order_id \in OrderIdInputs, user_id \in Users, amount \in AmountInputs,
       payment_method \in PaymentMethods, card_number \in cards :
        LET out == ProcessPayment(payments["serving"], next_payment_id, order_id,
                                  user_id, amount, payment_method, card_number)
        IN /\ NewPayments < limit
           /\ payments' = [payments EXCEPT !["serving"] = out.payments]
           /\ next_payment_id' = IF out.code = "OK" THEN next_payment_id + 1
                                 ELSE next_payment_id
           /\ payment_results' = payment_results \cup RoutePaymentResults(out.emitted)
           /\ Done("ProcessPayment", "serving", order_id, card_number, << >>, out)
           /\ UNCHANGED <<ledgerVars, order_payments>>

RpcProcessPayment == ProcessPaymentRequest(CardInputs, MaxNewPayments)

\* gRPC RefundPayment on the serving instance
RpcRefundPayment ==
    \E payment_id \in PaymentIdInputs, reason \in Reasons :
        LET ps == payments["serving"]
            out == RefundPayment(ps, payment_id, reason)
        IN /\ payments' = [payments EXCEPT !["serving"] = out.payments]
           /\ Done("RefundPayment", "serving",
                   IF payment_id \in DOMAIN ps THEN ps[payment_id].order_id ELSE 0,
                   payment_id, << >>, out)
           /\ UNCHANGED <<ledgerVars, next_payment_id, order_payments,
                          payment_results>>

\* the handler payment_result_callback dispatches to
HandlerOf(event) ==
    IF ~ ({"event_type", "order_id"} \subseteq DOMAIN event)
    THEN "payment_result_callback"
    ELSE IF event.event_type = "payment.success" THEN "handle_payment_success"
    ELSE IF event.event_type = "payment.failed" THEN "handle_payment_failure"
    ELSE "payment_result_callback"

\* The bus hands a message of 'payment_results' to the consumer of ledger
\* instance i.  Delivery is at least once: with redeliver the message stays
\* queued and comes again.
DeliverPaymentResult(i, event, redeliver) ==
    /\ event \in payment_results
    /\ LET out == payment_result_callback(orders[i], event)
       IN /\ orders' = [orders EXCEPT ![i] = out.orders]
          /\ Done(HandlerOf(event), i, OrderIdOf(event), None, << event >>, out)
    /\ payment_results' = IF redeliver THEN payment_results
                          ELSE payment_results \ {event}
    /\ UNCHANGED <<order_counter, paymentVars, order_payments>>

\* The bus hands a message of 'order_payments' to the consumer of payment
\* instance i, while fewer than limit payment records have been stored.
DeliverOrderCreatedUpTo(limit, i, event, redeliver) ==
    /\ event \in order_payments
    /\ \E payment_success \in BOOLEAN :
        LET out == order_created_callback(payments[i], next_payment_id, event,
                                          payment_success)
        IN /\ out.code = "OK" => NewPayments < limit
           /\ payments' = [payments EXCEPT ![i] = out.payments]
           /\ next_payment_id' = IF out.code = "OK" THEN next_payment_id + 1
                                 ELSE next_payment_id
           /\ payment_results' = payment_results \cup RoutePaymentResults(out.emitted)
           /\ Done("process_payment_from_event", i, OrderIdOf(event), None,
                   << event >>, out)
    /\ order_payments' = IF redeliver THEN order_payments
                         ELSE order_payments \ {event}
    /\ UNCHANGED ledgerVars

DeliverOrderCreated(i, event, redeliver) ==
    DeliverOrderCreatedUpTo(MaxNewPayments, i, event, redeliver)

\* Another client of the broker publishes a malformed message.
ExternalPublishMalformed ==
    \E m \in Malformed :
        /\ order_payments' = IF m.routing_key = "order.created"
                             THEN order_payments \cup {m.body} ELSE order_payments
        /\ payment_results' = IF m.routing_key # "order.created"
                              THEN payment_results \cup {m.body} ELSE payment_results
        /\ Done("ExternalPublish", "broker", OrderIdOf(m.body), None, << >>,
                [code |-> "OK", old_status |-> None, emitted |-> << m.body >>])
        /\ UNCHANGED <<ledgerVars, paymentVars>>

\* NotificationService.__init__: setup_rabbitmq declares and binds the queue
NotificationServiceStart ==
    /\ ~ all_notifications_declared
    /\ all_notifications_declared' = TRUE
    /\ lastOp' = [op |-> "setup_rabbitmq", inst |-> "notifier", order_id |-> 0,
                  arg |-> None, received |-> << >>, code |-> "OK",
                  old_status |-> None, emitted |-> << >>]
    /\ UNCHANGED <<ledgerVars, paymentVars, order_payments, payment_results,
                   all_notifications, notifications, next_notification_id,
                   raceVars>>

\* The bus hands a message of 'all_notifications' to the dispatcher, while
\* fewer than limit notifications were stored.  With fault the handler
\* raises before it stores (except Exception: logged).
DeliverNotificationUpTo(limit, event, redeliver, fault) ==
    /\ event \in all_notifications
    /\ LET out == IF fault THEN [notifications |-> notifications, code |-> "dropped"]
                  ELSE notification_callback(notifications, next_notification_id,
                                             event)
           queues == notifier_consume(event, redeliver, all_notifications,
                                      payment_results)
       IN /\ out.code = "OK" => next_notification_id <= limit
          /\ notifications' = out.notifications
          /\ next_notification_id' = IF out.code = "OK"
                                      THEN next_notification_id + 1
                                      ELSE next_notification_id
          /\ all_notifications' = queues.all_notifications
          /\ payment_results' = queues.payment_results
          /\ lastOp' = [op |-> "notification_callback", inst |-> "notifier",
                        order_id |-> OrderIdOf(event), arg |-> None,
                        received |-> << event >>, code |-> out.code,
                        old_status |-> None, emitted |-> << >>]
    /\ UNCHANGED <<ledgerVars, paymentVars, order_payments,
                   all_notifications_declared, raceVars>>

\* gRPC SendNotification, while fewer than limit notifications were stored
SendNotificationCall(requests, limit) ==
    \E request \in requests :
        /\ next_notification_id <= limit
        /\ notifications' = SendNotification(notifications, next_notification_id,
                                             request)
        /\ next_notification_id' = next_notification_id + 1
        /\ lastOp' = [op |-> "SendNotification", inst |-> "notifier",
                      order_id |-> 0, arg |-> request, received |-> << >>,
                      code |-> "OK", old_status |-> None, emitted |-> << >>]
        /\ UNCHANGED <<ledgerVars, paymentVars, order_payments, payment_results,
                       all_notifications, all_notifications_declared, raceVars>>

RpcSendNotification == SendNotificationCall(NotificationRequests, MaxNotified)

\* Another client of the broker publishes on 'order_events', one of events.
ExternalPublishOf(events) ==
    \E event \in events :
        /\ order_payments' = order_payments \cup RouteOrderPayments(<< event >>)
        /\ Done("ExternalPublish", "broker", event.order_id, None, << >>,
                [code |-> "OK", old_status |-> None, emitted |-> << event >>])
        /\ UNCHANGED <<ledgerVars, paymentVars, payment_results>>

ExternalPublish == ExternalPublishOf(ExternalEvents)

Next ==
    \/ RpcCreateOrder
    \/ RpcUpdateOrderStatus
    \/ RpcCancelOrder
    \/ RpcProcessPayment
    \/ \E i \in Inst, event \in payment_results, redeliver \in BOOLEAN :
           DeliverPaymentResult(i, event, redeliver)
    \/ \E i \in Inst, event \in order_payments, redeliver \in BOOLEAN :
           DeliverOrderCreated(i, event, redeliver)
    \/ ExternalPublish

Spec == Init /\ [][Next]_vars

\* The consumer threads (channel.start_consuming) keep taking what is
\* queued: a queued message is eventually handed to one of the consumers
\* and leaves its queue.
FairSpec ==
    /\ Spec
    /\ WF_vars(\E i \in Inst, event \in order_payments :
                   DeliverOrderCreated(i, event, FALSE))
    /\ WF_vars(\E i \in Inst, event \in payment_results :
                   DeliverPaymentResult(i, event, FALSE))

\* The Order Ledger's RPCs alone, CreateOrder over the pricing cases.
RpcCreateOrderPriced == CreateOrderRequest(ItemListInputs)

LedgerNext ==
    \/ RpcCreateOrderPriced
    \/ RpcUpdateOrderStatus
    \/ RpcCancelOrder
    \/ GatewayCreateOrder

LedgerSpec == Init /\ [][LedgerNext]_vars

\* The Payment Processor and its queue alone: both entry points, refunds,
\* and the order.created events other clients publish with the payload
\* process_payment_from_event reads.
RpcProcessPaymentAnyCard == ProcessPaymentRequest(CardInputsAll, MaxCharges)

PaymentNext ==
    \/ RpcProcessPaymentAnyCard
    \/ RpcRefundPayment
    \/ \E i \in Inst, event \in order_payments, redeliver \in BOOLEAN :
           DeliverOrderCreatedUpTo(MaxCharges, i, event, redeliver)
    \/ ExternalPublish

PaymentSpec == Init /\ [][PaymentNext]_vars

\* The Order Ledger listing the orders of several owners.
RpcCreateOrderListed == CreateOrderCall(ListUsers, ItemLists, MaxListed)

ListNext ==
    \/ RpcCreateOrderListed
    \/ RpcCancelOrder
    \/ RpcListOrders

ListSpec == Init /\ [][ListNext]_vars

\* The saga with the Notification Dispatcher beside it and malformed
\* messages on the exchanges.
NotifyNext ==
    \/ NotificationServiceStart
    \/ RpcCreateOrder
    \/ RpcProcessPayment
    \/ ExternalPublishMalformed
    \/ \E i \in Inst, event \in payment_results :
           DeliverPaymentResult(i, event, FALSE)
    \/ \E i \in Inst, event \in order_payments :
           DeliverOrderCreated(i, event, FALSE)
    \/ \E event \in all_notifications, fault \in BOOLEAN :
           DeliverNotificationUpTo(MaxNotified, event, FALSE, fault)
    \/ RpcSendNotification

NotifySpec == Init /\ [][NotifyNext]_vars

\* The Notification Dispatcher filling the inbox of one user from both of
\* its entry points.
InboxPublish == ExternalPublishOf(InboxEvents)
RpcSendNotificationInbox == SendNotificationCall(InboxRequests, MaxInbox)

InboxNext ==
    \/ NotificationServiceStart
    \/ InboxPublish
    \/ \E event \in all_notifications, redeliver \in BOOLEAN, fault \in BOOLEAN :
           DeliverNotificationUpTo(MaxInbox, event, redeliver, fault)
    \/ RpcSendNotificationInbox

InboxSpec == Init /\ [][InboxNext]_vars

\* gRPC GetUserNotifications
RpcGetUserNotifications ==
    \E user_id \in ShownUsers, limit \in ShownLimits, offset \in ShownOffsets :
        /\ lastOp' = [op |-> "GetUserNotifications", inst |-> "notifier",
                      order_id |-> 0,
                      arg |-> [user_id |-> user_id, limit |-> limit,
                               offset |-> offset],
                      received |-> << >>, code |-> "OK", old_status |-> None,
                      emitted |-> << >>,
                      response |-> GetUserNotifications(notifications, user_id,
                                                        limit, offset)]
        /\ UNCHANGED <<ledgerVars, paymentVars, order_payments, payment_results,
                       notifyVars, raceVars>>

\* The Notification Dispatcher filling an inbox and being asked for it.
RpcSendNotificationShown == SendNotificationCall(InboxRequests, MaxShown)

ShownNext ==
    \/ NotificationServiceStart
    \/ InboxPublish
    \/ \E event \in all_notifications :
           DeliverNotificationUpTo(MaxShown, event, TRUE, FALSE)
    \/ RpcSendNotificationShown
    \/ RpcGetUserNotifications

ShownSpec == Init /\ [][ShownNext]_vars

\* gRPC GetOrder on the serving instance
RpcGetOrder ==
    \E order_id \in GetOrderIdInputs :
        LET out == GetOrder(orders["serving"], order_id)
        IN /\ lastOp' = [op |-> "GetOrder", inst |-> "serving",
                         order_id |-> order_id, arg |-> None, received |-> << >>,
                         code |-> out.code, old_status |-> None,
                         emitted |-> << >>, response |-> out.response]
           /\ UNCHANGED <<ledgerVars, paymentVars, order_payments,
                          payment_results, notifyVars, raceVars>>

\* gRPC GetPayment on the serving instance
RpcGetPayment ==
    \E payment_id \in PaymentIdInputs :
        LET out == GetPayment(payments["serving"], payment_id)
        IN /\ lastOp' = [op |-> "GetPayment", inst |-> "serving", order_id |-> 0,
                         arg |-> payment_id, received |-> << >>,
                         code |-> out.code, old_status |-> None,
                         emitted |-> << >>, response |-> out.response]
           /\ UNCHANGED <<ledgerVars, paymentVars, order_payments,
                          payment_results, notifyVars, raceVars>>

\* The two stores with their reads: every RPC of the Order Ledger and of
\* the Payment Processor, and the consumers, each message delivered once.
StoreNext ==
    \/ RpcCreateOrder
    \/ RpcUpdateOrderStatus
    \/ RpcCancelOrder
    \/ RpcGetOrder
    \/ RpcProcessPayment
    \/ RpcRefundPayment
    \/ RpcGetPayment
    \/ \E i \in Inst, event \in payment_results : DeliverPaymentResult(i, event, FALSE)
    \/ \E i \in Inst, event \in order_payments : DeliverOrderCreated(i, event, FALSE)

StoreSpec == Init /\ [][StoreNext]_vars

\* The Order Ledger over a broker connection that can fail: the handlers
\* as above, each publish going through (published) or raising.
CreateOrderBestEffort ==
    \E user_id \in Users, payment_method \in PaymentMethods, items \in ItemLists,
       published \in BOOLEAN :
        LET counter == order_counter["serving"]
            out == send_order_event(CreateOrder(orders["serving"], counter, user_id,
                                                payment_method, items), published)
        IN /\ counter < FirstOrderId + 2 + MaxNewOrders
           /\ orders' = [orders EXCEPT !["serving"] = out.orders]
           /\ order_counter' = [order_counter EXCEPT !["serving"] = counter + 1]
           /\ order_payments' = order_payments \cup RouteOrderPayments(out.emitted)
           /\ Done("CreateOrder", "serving", counter, items, << >>, out)
           /\ UNCHANGED <<paymentVars, payment_results>>

UpdateOrderStatusBestEffort ==
    \E order_id \in OrderIdInputs, status \in StatusInputs, published \in BOOLEAN :
        LET out == send_order_event(UpdateOrderStatus(orders["serving"], order_id,
                                                      status), published)
        IN /\ orders' = [orders EXCEPT !["serving"] = out.orders]
           /\ Done("UpdateOrderStatus", "serving", order_id, status, << >>, out)
           /\ UNCHANGED <<order_counter, paymentVars, order_payments,
                          payment_results>>

CancelOrderBestEffort ==
    \E order_id \in OrderIdInputs, reason \in Reasons, published \in BOOLEAN :
        LET out == send_order_event(CancelOrder(orders["serving"], order_id, reason),
                                    published)
        IN /\ orders' = [orders EXCEPT !["serving"] = out.orders]
           /\ Done("CancelOrder", "serving", order_id, reason, << >>, out)
           /\ UNCHANGED <<order_counter, paymentVars, order_payments,
                          payment_results>>

DeliverPaymentResultBestEffort ==
    \E i \in Inst, event \in payment_results, published \in BOOLEAN :
        /\ LET out == send_order_event(payment_result_callback(orders[i], event),
                                       published)
           IN /\ orders' = [orders EXCEPT ![i] = out.orders]
              /\ Done(HandlerOf(event), i, OrderIdOf(event), None, << event >>, out)
        /\ payment_results' = payment_results \ {event}
        /\ UNCHANGED <<order_counter, paymentVars, order_payments>>

BestEffortNext ==
    \/ CreateOrderBestEffort
    \/ UpdateOrderStatusBestEffort
    \/ CancelOrderBestEffort
    \/ RpcProcessPayment
    \/ DeliverPaymentResultBestEffort

BestEffortSpec == Init /\ [][BestEffortNext]_vars

(***************************************************************************)
(* The Order Ledger statement by statement.  serve() hands the RPCs to a   *)
(* ThreadPoolExecutor and the consumer of 'payment_results' runs in its    *)
(* own thread; OrderService holds no lock, so the threads interleave       *)
(* between the statements of the handlers.  threads[t] is the call thread  *)
(* t runs: the handler (op), the statement it is at (pc), the order, the   *)
(* argument (new status, reason, user), the value of a local (local) and   *)
(* the answer once it is done (code).  event_log is what reached the       *)
(* exchange 'order_events', in the order of the basic_publish calls.       *)
(***************************************************************************)
RpcThreads == {"rpc1", "rpc2"}
ConsumerThread == "consumer"

\* the order the status-changing calls name: the seeded PROCESSING order
RaceOrderIds == {FirstOrderId + 1}
RaceStatusInputs == {"SHIPPED", "DELIVERED"}
StatusOps == {"UpdateOrderStatus", "CancelOrder",
              "handle_payment_success", "handle_payment_failure"}

Call(op, pc, order_id, arg) ==
    [op |-> op, pc |-> pc, order_id |-> order_id, arg |-> arg, local |-> 0,
     code |-> ""]

\* the calls the RPC pool can be handed
RpcCalls ==
    { Call("UpdateOrderStatus", "get", o, st) :
        o \in RaceOrderIds, st \in RaceStatusInputs }
    \cup { Call("CancelOrder", "get", o, r) : o \in RaceOrderIds, r \in Reasons }
    \cup { Call("CreateOrder", "name", 0, u) : u \in ListUsers }

\* the handlers payment_result_callback can enter
ConsumerCalls ==
    { Call(h, "get", o, None) :
        h \in {"handle_payment_success", "handle_payment_failure"},
        o \in RaceOrderIds }

\* the status a call writes
StatusWritten(call) ==
    CASE call.op = "UpdateOrderStatus" -> call.arg
      [] call.op = "CancelOrder" -> "CANCELLED"
      [] call.op = "handle_payment_success" -> "PROCESSING"
      [] call.op = "handle_payment_failure" -> "CANCELLED"

\* the event a call hands to send_order_event
EventPublished(os, call) ==
    CASE call.op = "UpdateOrderStatus" ->
             OrderEvent(call.order_id, os[call.order_id].user_id,
                        "order." \o LowerStatus(call.arg), call.arg, None)
      [] call.op = "CancelOrder" ->
             OrderEvent(call.order_id, os[call.order_id].user_id,
                        "order.cancelled", "CANCELLED", call.arg)
      [] call.op = "handle_payment_success" ->
             OrderEvent(call.order_id, os[call.order_id].user_id,
                        "order.processing", "PROCESSING", None)
      [] call.op = "handle_payment_failure" ->
             OrderEvent(call.order_id, os[call.order_id].user_id,
                        "order.cancelled", "CANCELLED", "Payment failed")
      [] call.op = "CreateOrder" ->
             OrderEvent(call.order_id, call.arg, "order.created", "PENDING", None)

At(t, ops, pc) ==
    /\ t \in DOMAIN threads
    /\ threads[t].op \in ops
    /\ threads[t].pc = pc

Goto(t, call) == threads' = [threads EXCEPT ![t] = call]

\* a worker of the RPC pool is handed a call
RpcArrives ==
    \E t \in RpcThreads, call \in RpcCalls :
        /\ t \notin DOMAIN threads
        /\ threads' = (t :> call) @@ threads
        /\ UNCHANGED <<ledgerVars, paymentVars, order_payments, payment_results,
                       lastOp, notifyVars, event_log>>

\* the consumer thread is handed a payment outcome for the order
ConsumerArrives ==
    \E call \in ConsumerCalls :
        /\ ConsumerThread \notin DOMAIN threads
        /\ threads' = (ConsumerThread :> call) @@ threads
        /\ UNCHANGED <<ledgerVars, paymentVars, order_payments, payment_results,
                       lastOp, notifyVars, event_log>>

\* self.orders.get(order_id) and the checks before the write:
\* UpdateOrderStatus the status name, CancelOrder the current status
StepGet ==
    \E t \in DOMAIN threads :
        /\ At(t, StatusOps, "get")
        /\ LET call == threads[t]
               os == orders["serving"]
               code == IF call.order_id \notin DOMAIN os
                       THEN (IF call.op \in {"UpdateOrderStatus", "CancelOrder"}
                             THEN "NOT_FOUND" ELSE "OK")
                       ELSE IF call.op = "UpdateOrderStatus"
                               /\ call.arg \notin valid_statuses
                       THEN "INVALID_ARGUMENT"
                       ELSE IF call.op = "CancelOrder"
                               /\ os[call.order_id].status = "DELIVERED"
                       THEN "FAILED_PRECONDITION"
                       ELSE ""
           IN Goto(t, IF code = "" THEN [call EXCEPT !.pc = "write"]
                      ELSE [call EXCEPT !.pc = "done", !.code = code])
        /\ UNCHANGED <<ledgerVars, paymentVars, order_payments, payment_results,
                       lastOp, notifyVars, event_log>>

\* order['status'] = ...
StepWrite ==
    \E t \in DOMAIN threads :
        /\ At(t, StatusOps, "write")
        /\ orders' = [orders EXCEPT !["serving"][threads[t].order_id].status =
                                        StatusWritten(threads[t])]
        /\ Goto(t, [threads[t] EXCEPT !.pc = "publish"])
        /\ UNCHANGED <<order_counter, paymentVars, order_payments,
                       payment_results, lastOp, notifyVars, event_log>>

\* order_id = f"ORD{self.order_counter}"
StepName ==
    \E t \in DOMAIN threads :
        /\ At(t, {"CreateOrder"}, "name")
        /\ Goto(t, [threads[t] EXCEPT !.pc = "load",
                                      !.order_id = order_counter["serving"]])
        /\ UNCHANGED <<ledgerVars, paymentVars, order_payments, payment_results,
                       lastOp, notifyVars, event_log>>

\* self.order_counter += 1: the attribute is loaded ...
StepLoad ==
    \E t \in DOMAIN threads :
        /\ At(t, {"CreateOrder"}, "load")
        /\ Goto(t, [threads[t] EXCEPT !.pc = "store",
                                      !.local = order_counter["serving"]])
        /\ UNCHANGED <<ledgerVars, paymentVars, order_payments, payment_results,
                       lastOp, notifyVars, event_log>>

\* ... and the sum is stored
StepStore ==
    \E t \in DOMAIN threads :
        /\ At(t, {"CreateOrder"}, "store")
        /\ order_counter' = [order_counter EXCEPT
                                 !["serving"] = threads[t].local + 1]
        /\ Goto(t, [threads[t] EXCEPT !.pc = "put"])
        /\ UNCHANGED <<orders, paymentVars, order_payments, payment_results,
                       lastOp, notifyVars, event_log>>

\* self.orders[order_id] = order
StepPut ==
    \E t \in DOMAIN threads, payment_method \in PaymentMethods,
       items \in ItemLists :
        /\ At(t, {"CreateOrder"}, "put")
        /\ orders' = [orders EXCEPT !["serving"] =
                          (threads[t].order_id :>
                               NewOrder(threads[t].order_id, threads[t].arg,
                                        payment_method, items)) @@ @]
        /\ Goto(t, [threads[t] EXCEPT !.pc = "publish"])
        /\ UNCHANGED <<order_counter, paymentVars, order_payments,
                       payment_results, lastOp, notifyVars, event_log>>

\* self.send_order_event(...), and the call returns
StepPublish ==
    \E t \in DOMAIN threads :
        /\ At(t, StatusOps \cup {"CreateOrder"}, "publish")
        /\ LET event == EventPublished(orders["serving"], threads[t])
           IN /\ event_log' = Append(event_log, event)
              /\ order_payments' = order_payments \cup RouteOrderPayments(<< event >>)
              /\ all_notifications' =
                     IF all_notifications_declared
                     THEN all_notifications \cup RouteAllNotifications(<< event >>)
                     ELSE all_notifications
        /\ Goto(t, [threads[t] EXCEPT !.pc = "done", !.code = "OK"])
        /\ UNCHANGED <<ledgerVars, paymentVars, payment_results, lastOp,
                       all_notifications_declared, notifications,
                       next_notification_id>>

RaceNext ==
    \/ RpcArrives
    \/ ConsumerArrives
    \/ StepGet
    \/ StepWrite
    \/ StepName
    \/ StepLoad
    \/ StepStore
    \/ StepPut
    \/ StepPublish

RaceSpec == Init /\ [][RaceNext]_vars

(***************************************************************************)
(* The gateway's saga demo (POST /api/saga/demo).  The route calls the     *)
(* cart, CreateOrder and ProcessPayment one after the other; between the   *)
(* calls the consumers go on.  threads["demo"] is the request: the user    *)
(* (arg), the order_id and total_amount of order_result (order_id, local)  *)
(* and, once it has answered, the answer (code).                           *)
(***************************************************************************)
DemoThread == "demo"

\* what get_cart hands the route: an error, an empty cart, a cart
DemoCartResults ==
    CartResults \cup
    { [cart_id |-> "CART_" \o u, user_id |-> u, items |-> << >>] : u \in Users }

\* saga_demo up to order_client.create_order
SagaDemoCreateOrder ==
    \E cart_result \in DemoCartResults, user_id \in Users,
       payment_method \in PaymentMethods :
        /\ DemoThread \notin DOMAIN threads
        /\ IF "error" \in DOMAIN cart_result \/ Len(cart_result.items) = 0
           THEN /\ threads' = (DemoThread :>
                                  [Call("saga_demo", "done", 0, user_id)
                                      EXCEPT !.code = "400 Cart is empty"])
                                @@ threads
                /\ lastOp' = [op |-> "saga_demo", inst |-> "gateway",
                              order_id |-> 0, arg |-> None, received |-> << >>,
                              code |-> "400 Cart is empty", old_status |-> None,
                              emitted |-> << >>]
                /\ UNCHANGED <<ledgerVars, order_payments, all_notifications>>
           ELSE LET counter == order_counter["serving"]
                    out == CreateOrder(orders["serving"], counter, user_id,
                                       payment_method, cart_result.items)
                IN /\ counter < FirstOrderId + 2 + MaxNewOrders
                   /\ orders' = [orders EXCEPT !["serving"] = out.orders]
                   /\ order_counter' = [order_counter EXCEPT
                                            !["serving"] = counter + 1]
                   /\ order_payments' =
                          order_payments \cup RouteOrderPayments(out.emitted)
                   /\ all_notifications' =
                          IF all_notifications_declared
                          THEN all_notifications \cup RouteAllNotifications(out.emitted)
                          ELSE all_notifications
                   /\ threads' = (DemoThread :>
                                     [Call("saga_demo", "pay", counter, user_id)
                                         EXCEPT !.local =
                                             out.orders[counter].total_amount])
                                   @@ threads
                   /\ lastOp' = [op |-> "CreateOrder", inst |-> "serving",
                                 order_id |-> counter, arg |-> cart_result.items,
                                 received |-> << >>, code |-> out.code,
                                 old_status |-> out.old_status,
                                 emitted |-> out.emitted]
        /\ UNCHANGED <<paymentVars, payment_results, all_notifications_declared,
                       notifications, next_notification_id, event_log>>

\* saga_demo from payment_client.process_payment to its answer.  When
\* ProcessPayment fails the route calls order_client.cancel_order, a method
\* OrderClient does not have: AttributeError, answered as a 500.
SagaDemoProcessPayment ==
    \E payment_method \in PaymentMethods, card_number \in CardInputs :
        /\ At(DemoThread, {"saga_demo"}, "pay")
        /\ NewPayments < MaxCharges
        /\ LET demo == threads[DemoThread]
               out == ProcessPayment(payments["serving"], next_payment_id,
                                     demo.order_id, demo.arg, demo.local,
                                     payment_method, card_number)
           IN /\ payments' = [payments EXCEPT !["serving"] = out.payments]
              /\ next_payment_id' = IF out.code = "OK" THEN next_payment_id + 1
                                    ELSE next_payment_id
              /\ payment_results' =
                     payment_results \cup RoutePaymentResults(out.emitted)
              /\ all_notifications' =
                     IF all_notifications_declared
                     THEN all_notifications \cup RouteAllNotifications(out.emitted)
                     ELSE all_notifications
              /\ Goto(DemoThread,
                      [demo EXCEPT !.pc = "done",
                                   !.code = IF out.code = "OK"
                                            THEN "200 order_status: PROCESSING"
                                            ELSE "500 AttributeError"])
              /\ lastOp' = [op |-> "ProcessPayment", inst |-> "serving",
                            order_id |-> demo.order_id, arg |-> card_number,
                            received |-> << >>, code |-> out.code,
                            old_status |-> None, emitted |-> out.emitted]
        /\ UNCHANGED <<ledgerVars, order_payments, all_notifications_declared,
                       notifications, next_notification_id, event_log>>

\* a caller of ProcessPayment beside the demo
RpcProcessPaymentAgain == ProcessPaymentRequest({Digits(CardDigits)}, MaxCharges)

DemoNext ==
    \/ SagaDemoCreateOrder
    \/ SagaDemoProcessPayment
    \/ RpcProcessPaymentAgain
    \/ \E i \in Inst, event \in payment_results : DeliverPaymentResult(i, event, FALSE)
    \/ \E i \in Inst, event \in order_payments :
           DeliverOrderCreatedUpTo(MaxCharges, i, event, FALSE)

DemoSpec == Init /\ [][DemoNext]_vars

(***************************************************************************)
(* Properties.                                                             *)
(***************************************************************************)
\* the order the last step was about, as stored by the instance that ran it
LastOrder == orders[lastOp.inst][lastOp.order_id]

\* the state graph of the order status
TransitionGraph ==
    { <<"PENDING", "PROCESSING">>, <<"PROCESSING", "SHIPPED">>,
      <<"SHIPPED", "DELIVERED">>,
      <<"PENDING", "CANCELLED">>, <<"PROCESSING", "CANCELLED">> }

\* C1: UpdateOrderStatus on an existing order with one of the five statuses
\* succeeds only along an edge of the state graph; for every other pair of
\* statuses it fails, the order keeps its status and nothing is published.
C1_UpdateFollowsGraph ==
    (/\ lastOp.op = "UpdateOrderStatus"
     /\ lastOp.old_status # None
     /\ lastOp.arg \in valid_statuses)
    => IF <<lastOp.old_status, lastOp.arg>> \in TransitionGraph
       THEN TRUE
       ELSE /\ lastOp.code # "OK"
            /\ LastOrder.status = lastOp.old_status
            /\ lastOp.emitted = << >>

\* C2: DELIVERED and CANCELLED are absorbing: no step changes the status of
\* an order that is DELIVERED or CANCELLED.
C2_TerminalAbsorbing ==
    [][\A i \in Inst : \A o \in DOMAIN orders[i] :
          orders[i][o].status \in {"DELIVERED", "CANCELLED"}
          => orders'[i][o].status = orders[i][o].status]_vars

\* C3: the payment.success handler changes an order only when it is PENDING
\* (it becomes PROCESSING and one order.processing is published); for an
\* order in any other status it changes no status and publishes nothing.
C3_SuccessOnlyFromPending ==
    (lastOp.op = "handle_payment_success" /\ lastOp.old_status # None)
    => IF lastOp.old_status = "PENDING"
       THEN /\ LastOrder.status = "PROCESSING"
            /\ Len(lastOp.emitted) = 1
            /\ lastOp.emitted[1].event_type = "order.processing"
       ELSE /\ LastOrder.status = lastOp.old_status
            /\ lastOp.emitted = << >>

\* C4: handing the same payment.success message to the same ledger a second
\* time, right after the first, changes no order and publishes nothing more.
C4_SecondDeliveryNoOp ==
    [][(/\ lastOp.op = "handle_payment_success"
        /\ lastOp'.op = "handle_payment_success"
        /\ lastOp'.received = lastOp.received
        /\ lastOp'.inst = lastOp.inst
        /\ lastOp.old_status # None)
       => (/\ orders' = orders
           /\ lastOp'.emitted = << >>
           /\ lastOp'.code = "OK")]_vars

C6_FailureIgnoredWhenTerminal ==
    (lastOp.op = "handle_payment_failure"
     /\ lastOp.old_status \in {"CANCELLED", "DELIVERED"})
    => /\ LastOrder.status = lastOp.old_status
       /\ lastOp.emitted = << >>

\* C7: saga progress: with the consumers scheduled fairly, every order
\* created by CreateOrder eventually leaves PENDING, reaching PROCESSING
\* or CANCELLED.
C7_SagaProgress ==
    \A o \in (FirstOrderId + 2) .. (FirstOrderId + 1 + MaxNewOrders) :
        (lastOp.op = "CreateOrder" /\ lastOp.order_id = o)
        ~> (/\ o \in DOMAIN orders["serving"]
            /\ orders["serving"][o].status \in {"PROCESSING", "CANCELLED"})

\* C8: every successful CreateOrder stores the order as PENDING and
\* publishes exactly one order.created event whose payload holds the
\* order's order_id, user_id, total_amount and payment_method.
C8_CreatedPayload ==
    (lastOp.op = "CreateOrder" /\ lastOp.code = "OK")
    => /\ lastOp.order_id \in DOMAIN orders["serving"]
       /\ Len(lastOp.emitted) = 1
       /\ LET event == lastOp.emitted[1]
          IN /\ event.event_type = "order.created"
             /\ {"order_id", "user_id", "total_amount", "payment_method"}
                    \subseteq DOMAIN event
             /\ event.order_id = lastOp.order_id
             /\ event.user_id = LastOrder.user_id
             /\ event.total_amount = LastOrder.total_amount
             /\ event.payment_method = LastOrder.payment_method

\* C9: CancelOrder on a DELIVERED order fails with FAILED_PRECONDITION, the
\* order stays DELIVERED and no event is published.
C9_CancelDeliveredFails ==
    (lastOp.op = "CancelOrder" /\ lastOp.old_status = "DELIVERED")
    => /\ lastOp.code = "FAILED_PRECONDITION"
       /\ LastOrder.status = "DELIVERED"
       /\ lastOp.emitted = << >>

\* CancelOrder has been called on a DELIVERED order
C9_Witness ==
    /\ lastOp.op = "CancelOrder"
    /\ lastOp.old_status = "DELIVERED"
    /\ lastOp.code = "FAILED_PRECONDITION"

ValidItems(items) ==
    /\ items # << >>
    /\ \A k \in 1 .. Len(items) : items[k].quantity > 0

\* the sum of price * quantity over the items
SumProducts(items) ==
    LET RECURSIVE S(_)
        S(k) == IF k = 0 THEN 0
                ELSE items[k].price * items[k].quantity + S(k - 1)
    IN S(Len(items))

\* C11: for a valid item list the order CreateOrder returns has tax = 0.10 x
\* subtotal, total_amount = subtotal + tax + shipping_cost and shipping_cost
\* 0 exactly when subtotal >= 100.00 (else 9.99); one item of price 10 and
\* quantity 2 gives subtotal 20, tax 2, shipping 9.99, total 31.99, PENDING.
C11_OrderTotals ==
    (lastOp.op = "CreateOrder" /\ ValidItems(lastOp.arg))
    => /\ lastOp.code = "OK"
       /\ lastOp.order_id \in DOMAIN orders["serving"]
       /\ 10 * LastOrder.tax = LastOrder.subtotal
       /\ LastOrder.total_amount =
              LastOrder.subtotal + LastOrder.tax + LastOrder.shipping_cost
       /\ (LastOrder.shipping_cost = 0) <=> (LastOrder.subtotal >= 100000)
       /\ LastOrder.shipping_cost \in {0, 9990}
       /\ (Len(lastOp.arg) = 1 /\ lastOp.arg[1].price = 10000
                               /\ lastOp.arg[1].quantity = 2)
          => /\ LastOrder.subtotal = 20000
             /\ LastOrder.tax = 2000
             /\ LastOrder.shipping_cost = 9990
             /\ LastOrder.total_amount = 31990
             /\ LastOrder.status = "PENDING"

\* C12: in the order CreateOrder stores, every item's line total is its
\* unit price x quantity and subtotal is the sum of those products, whatever
\* total the caller sent for the item.
C12_LineTotals ==
    (/\ lastOp.op = "CreateOrder"
     /\ lastOp.code = "OK"
     /\ lastOp.order_id \in DOMAIN orders["serving"])
    => /\ Len(LastOrder.items) = Len(lastOp.arg)
       /\ \A k \in 1 .. Len(LastOrder.items) :
              LastOrder.items[k].total =
                  lastOp.arg[k].price * lastOp.arg[k].quantity
       /\ LastOrder.subtotal = SumProducts(lastOp.arg)

\* C13: CreateOrder with no item, or with an item of quantity <= 0, fails
\* with a validation error: no order is stored under the id and no
\* order.created event is published.
C13_InvalidItemsRejected ==
    (lastOp.op = "CreateOrder" /\ ~ ValidItems(lastOp.arg))
    => /\ lastOp.code = "INVALID_ARGUMENT"
       /\ lastOp.order_id \notin DOMAIN orders["serving"]
       /\ lastOp.emitted = << >>

\* the charge the last step made, as stored by the instance that ran it
LastCharge == payments[lastOp.inst][lastOp.emitted[1].payment_id]

\* the last step was a charge attempt that got past validation
ChargeMade ==
    /\ lastOp.op \in {"ProcessPayment", "process_payment_from_event"}
    /\ lastOp.code = "OK"

\* the number of digits of a card number
DigitCount(card_number) ==
    Len(SelectSeq(card_number,
                  LAMBDA c : c \in {"0", "1", "2", "3", "4", "5", "6", "7", "8", "9"}))

\* C14: ProcessPayment with a card number of fewer than 16 digits (spaces
\* ignored), or with none, fails with a validation error, stores no payment
\* and publishes no payment event.
C14_ShortCardRejected ==
    [][(lastOp'.op = "ProcessPayment" /\ DigitCount(lastOp'.arg) < 16)
       => (/\ lastOp'.code = "INVALID_ARGUMENT"
           /\ payments' = payments
           /\ payment_results' = payment_results)]_vars

\* C15: RefundPayment on a stored payment succeeds only when its status is
\* SUCCESS, and then sets it to REFUNDED; with status FAILED or REFUNDED it
\* fails with FAILED_PRECONDITION and changes no record (so a second refund
\* of the same payment fails).
C15_RefundOnlyFromSuccess ==
    [][(lastOp'.op = "RefundPayment" /\ lastOp'.arg \in DOMAIN payments["serving"])
       => LET payment == payments["serving"][lastOp'.arg]
          IN IF payment.status = "SUCCESS"
             THEN /\ lastOp'.code = "OK"
                  /\ payments' = [payments EXCEPT
                         !["serving"][lastOp'.arg].status = "REFUNDED"]
             ELSE /\ lastOp'.code = "FAILED_PRECONDITION"
                  /\ payments' = payments]_vars

\* a payment already REFUNDED has been refused a second refund
C15_Witness ==
    /\ lastOp.op = "RefundPayment"
    /\ lastOp.old_status = "REFUNDED"
    /\ lastOp.code = "FAILED_PRECONDITION"
    /\ payments["serving"][lastOp.arg].status = "REFUNDED"

\* the failed charges ending the history of the serving instance: its
\* stored payments from the newest back to the first that is not FAILED
ConsecutiveFailures ==
    LET ps == payments["serving"]
        RECURSIVE Back(_)
        Back(id) == IF id \notin DOMAIN ps THEN IF id < 5 THEN 0 ELSE Back(id - 1)
                    ELSE IF ps[id].status = "FAILED" THEN 1 + Back(id - 1)
                    ELSE 0
    IN Back(next_payment_id - 1)

\* C16: once the simulated gateway has failed N times in a row (here the
\* most the bound leaves room for before one more call), the breaker is
\* open: ProcessPayment with a valid card fails fast with UNAVAILABLE and
\* stores no payment record.
C16_BreakerFailsFast ==
    [][(/\ lastOp'.op = "ProcessPayment"
        /\ DigitCount(lastOp'.arg) >= 16
        /\ ConsecutiveFailures >= MaxCharges - 1)
       => (/\ lastOp'.code = "UNAVAILABLE"
           /\ payments' = payments
           /\ payment_results' = payment_results)]_vars

\* C17: both entry points apply the same charge rules: a charge the event
\* path made is accepted by ProcessPayment for the same order, user, amount
\* and method only with a valid instrument, and with the same decision.
C17_SameChargeRules ==
    (lastOp.op = "process_payment_from_event" /\ lastOp.code = "OK")
    => \A card_number \in CardInputsAll :
          LET direct == ProcessPayment(payments[lastOp.inst], next_payment_id,
                                       LastCharge.order_id, LastCharge.user_id,
                                       LastCharge.amount, LastCharge.payment_method,
                                       card_number)
          IN /\ direct.code = "OK"
             /\ direct.payments[next_payment_id].status = LastCharge.status

C19_AmountIsOrderTotal ==
    (ChargeMade /\ LastCharge.order_id \in DOMAIN orders["serving"])
    => LastCharge.amount = orders["serving"][LastCharge.order_id].total_amount

\* C20: when the bus hands the same order.created message to the same
\* consumer again, right after a delivery that made a charge, the second
\* delivery stores no payment record and publishes no outcome event.
C20_RedeliveryChargesOnce ==
    [][(/\ lastOp.op = "process_payment_from_event"
        /\ lastOp.code = "OK"
        /\ lastOp'.op = "process_payment_from_event"
        /\ lastOp'.received = lastOp.received
        /\ lastOp'.inst = lastOp.inst)
       => (/\ payments' = payments
           /\ payment_results' = payment_results)]_vars

\* C25: once an order is stored, no step changes its items, subtotal, tax,
\* shipping_cost, total_amount, user_id or order_id: a stored order differs
\* from what it was one step before in its status at most.
C25_OnlyStatusChanges ==
    [][\A i \in Inst : \A o \in DOMAIN orders[i] :
          /\ o \in DOMAIN orders'[i]
          /\ [orders'[i][o] EXCEPT !.status = orders[i][o].status] = orders[i][o]]_vars

\* a payment handler has changed the status of an order CreateOrder stored
C25_Witness ==
    /\ lastOp.op \in {"handle_payment_success", "handle_payment_failure"}
    /\ lastOp.order_id >= FirstOrderId + 2
    /\ lastOp.old_status = "PENDING"
    /\ LastOrder.status # "PENDING"
    /\ LastOrder.total_amount = 31990

C30_OutcomeReachesServingLedger ==
    [][(/\ lastOp'.op \in {"handle_payment_success", "handle_payment_failure"}
        /\ lastOp'.received[1] \in payment_results
        /\ lastOp'.received[1] \notin payment_results'
        /\ lastOp'.order_id \in DOMAIN orders["serving"])
       => lastOp'.inst = "serving"]_vars

\* the orders of the serving ledger one step before that a ListOrders
\* request matches: owned by the user and, with a filter, of that status
Matching(request) ==
    { o \in DOMAIN orders["serving"] :
          /\ orders["serving"][o].user_id = request.user_id
          /\ request.status # "" => orders["serving"][o].status = request.status }

\* C26: ListOrders returns as total the number of the user's orders matching
\* the optional status filter, and as page the elements [(page-1)*limit,
\* page*limit) of that list in insertion order, limit <= 0 read as 10 and
\* page <= 0 as 1; it returns no other user's order and changes no order.
C26_ListOrdersPage ==
    [][lastOp'.op = "ListOrders"
       => LET request == lastOp'.arg
              response == lastOp'.response
              limit == IF request.limit <= 0 THEN 10 ELSE request.limit
              page == IF request.page <= 0 THEN 1 ELSE request.page
              first == (page - 1) * limit
              left == Cardinality(Matching(request)) - first
          IN /\ response.total = Cardinality(Matching(request))
             /\ Len(response.orders) =
                    (IF left <= 0 THEN 0 ELSE IF left < limit THEN left ELSE limit)
             /\ \A k \in 1 .. Len(response.orders) :
                    /\ response.orders[k].order_id \in Matching(request)
                    /\ response.orders[k] =
                           orders["serving"][response.orders[k].order_id]
                    /\ response.orders[k].user_id = request.user_id
                    /\ Cardinality({ o \in Matching(request) :
                                        o < response.orders[k].order_id })
                           = first + k - 1
             /\ orders' = orders]_vars

\* ListOrders has returned the second page, of one order, of a user who
\* owns three
C26_Witness ==
    /\ lastOp.op = "ListOrders"
    /\ lastOp.arg.page = 2
    /\ lastOp.arg.limit = 2
    /\ lastOp.response.total = 3
    /\ Len(lastOp.response.orders) = 1

\* C28: when the gateway's order creation cannot get the user's cart it
\* answers NotFound and stops: CreateOrder is not called, no order is stored
\* and no order.created event is published.
C28_NoCartNoOrder ==
    [][(lastOp'.op = "create_order" /\ "error" \in DOMAIN lastOp'.arg)
       => (/\ lastOp'.code = "NOT_FOUND"
           /\ lastOp'.emitted = << >>
           /\ orders' = orders
           /\ order_counter' = order_counter
           /\ order_payments' = order_payments)]_vars

\* the gateway has answered 404 to an order creation without a cart
C28_Witness ==
    /\ lastOp.op = "create_order"
    /\ "error" \in DOMAIN lastOp.arg
    /\ lastOp.code = "NOT_FOUND"
    /\ lastOp.order_id \notin DOMAIN orders["serving"]

\* C21: every user has at most 100 stored notifications, the most recent
\* ones in insertion order (where every notification goes to one user: the
\* ids up to the newest, without a gap).
C21_InboxKeepsLast100 ==
    \A u \in DOMAIN notifications :
        /\ Len(notifications[u]) <= 100
        /\ \A k \in 1 .. Len(notifications[u]) :
               notifications[u][k].notification_id =
                   next_notification_id - Len(notifications[u]) + k - 1

\* the steps of the Notification Dispatcher
DispatcherOps == {"setup_rabbitmq", "notification_callback", "SendNotification"}

\* C22: the Notification Dispatcher is an observer: none of its steps,
\* whether it handles an event, fails on it or starts, changes an order, a
\* payment record or a queue of the saga, so the saga goes the same way with
\* or without it.
C22_DispatcherObserves ==
    [][lastOp'.op \in DispatcherOps
       => UNCHANGED <<orders, order_counter, payments, next_payment_id,
                      order_payments, payment_results>>]_vars

\* the dispatcher has stored a notification while a payment outcome waits
\* in the queue of the Order Ledger
C22_Witness ==
    /\ lastOp.op = "notification_callback"
    /\ lastOp.code = "OK"
    /\ notifications # << >>
    /\ \E event \in payment_results : "order_id" \in DOMAIN event

\* the fields the consumer that ran op needs in an event
FieldsRead(op) ==
    IF op = "process_payment_from_event"
    THEN {"order_id", "user_id", "total_amount"}
    ELSE {"event_type", "order_id"}

\* C23: a malformed event (not parseable, or without a field the handler
\* needs) handed to the consumer of the Order Ledger, of the Payment
\* Processor or of the Notification Dispatcher is dropped: no order, payment
\* or notification changes and nothing is published.
C23_MalformedDropped ==
    [][(/\ lastOp'.op \in {"payment_result_callback", "handle_payment_success",
                           "handle_payment_failure", "process_payment_from_event",
                           "notification_callback"}
        /\ ~ (FieldsRead(lastOp'.op) \subseteq DOMAIN lastOp'.received[1]))
       => (/\ orders' = orders
           /\ payments' = payments
           /\ notifications' = notifications
           /\ lastOp'.emitted = << >>)]_vars

\* every call that was started has returned
Quiet == \A t \in DOMAIN threads : threads[t].pc = "done"

\* the calls that changed, or refused to change, the status of order o
StatusCalls(o) ==
    { t \in DOMAIN threads : threads[t].op \in StatusOps /\ threads[t].order_id = o }

\* one call run as a whole on the store os
SerialStep(os, call) ==
    CASE call.op = "UpdateOrderStatus" ->
             UpdateOrderStatus(os, call.order_id, call.arg)
      [] call.op = "CancelOrder" -> CancelOrder(os, call.order_id, call.arg)
      [] call.op = "handle_payment_success" ->
             handle_payment_success(os, [order_id |-> call.order_id])
      [] call.op = "handle_payment_failure" ->
             handle_payment_failure(os, [order_id |-> call.order_id])

\* running the calls of order one after the other from os gives every call
\* the answer it got and the order o the status it has
RECURSIVE SerialGives(_, _, _, _)
SerialGives(os, order, k, o) ==
    IF k > Len(order)
    THEN os[o].status = orders["serving"][o].status
    ELSE LET out == SerialStep(os, threads[order[k]])
         IN /\ out.code = threads[order[k]].code
            /\ SerialGives(out.orders, order, k + 1, o)

SerialOrders(ts) ==
    { order \in [1 .. Cardinality(ts) -> ts] :
        \A j, k \in 1 .. Cardinality(ts) : j # k => order[j] # order[k] }

\* the events published for order o, in order
RECURSIVE EventsOf(_, _)
EventsOf(log, o) ==
    IF log = << >> THEN << >>
    ELSE IF log[1].order_id = o THEN << log[1] >> \o EventsOf(Tail(log), o)
    ELSE EventsOf(Tail(log), o)

\* C24: status changes of one order are serialized: once the concurrent
\* calls on the order have returned, their answers and the order's status
\* are those of the calls run one after the other in some order, and the
\* stored status is the one the last event published for the order names.
C24_StatusChangesSerialized ==
    Quiet =>
        \A o \in RaceOrderIds :
            /\ \E order \in SerialOrders(StatusCalls(o)) :
                   SerialGives(sample_orders, order, 1, o)
            /\ LET published == EventsOf(event_log, o)
               IN published # << >> =>
                      orders["serving"][o].status = published[Len(published)].status

\* C29: no two CreateOrder calls return the same order id, and every order
\* a CreateOrder call stored, like the seeded orders, is still the order
\* of the user it was stored for.
C29_OrderIdsUnique ==
    /\ \A t1, t2 \in DOMAIN threads :
           (/\ t1 # t2
            /\ threads[t1].op = "CreateOrder" /\ threads[t1].pc = "done"
            /\ threads[t2].op = "CreateOrder" /\ threads[t2].pc = "done")
           => threads[t1].order_id # threads[t2].order_id
    /\ \A t \in DOMAIN threads :
           (threads[t].op = "CreateOrder" /\ threads[t].pc \in {"publish", "done"})
           => orders["serving"][threads[t].order_id].user_id = threads[t].arg
    /\ \A o \in DOMAIN sample_orders :
           orders["serving"][o].user_id = sample_orders[o].user_id

\* C35: a payment.success or payment.failed event naming an order the
\* ledger instance does not hold leaves its order store as it is (no order
\* is created) and publishes no lifecycle event.
C35_UnknownOrderIgnored ==
    [][(/\ lastOp'.op \in {"handle_payment_success", "handle_payment_failure"}
        /\ lastOp'.order_id \notin DOMAIN orders[lastOp'.inst])
       => (/\ orders' = orders
           /\ order_counter' = order_counter
           /\ lastOp'.emitted = << >>)]_vars

\* a payment.failed event for an order that was never created was handled
C35_Witness ==
    /\ lastOp.op = "handle_payment_failure"
    /\ lastOp.received # << >>
    /\ lastOp.order_id \notin DOMAIN orders[lastOp.inst]

\* C36: handling a well-formed saga event stores exactly one notification,
\* in the inbox of the owner of the order the event names, whether the
\* event is an order.* or a payment.* event.
C36_StoredForOwner ==
    [][(/\ lastOp'.op = "notification_callback"
        /\ lastOp'.code = "OK"
        /\ {"event_type", "order_id"} \subseteq DOMAIN lastOp'.received[1]
        /\ lastOp'.order_id \in DOMAIN orders["serving"])
       => LET owner == orders["serving"][lastOp'.order_id].user_id
          IN /\ Len(Inbox(notifications', owner)) =
                    Len(Inbox(notifications, owner)) + 1
             /\ \A u \in DOMAIN notifications' :
                    u # owner => Inbox(notifications', u) = Inbox(notifications, u)]_vars

\* C40: a stored payment record stays stored, keeps its payment_id,
\* order_id, user_id, amount and transaction_id, and its status changes
\* only from SUCCESS to REFUNDED.
C40_PaymentsWriteOnce ==
    [][\A i \in Inst : \A p \in DOMAIN payments[i] :
           /\ p \in DOMAIN payments'[i]
           /\ payments'[i][p].payment_id = payments[i][p].payment_id
           /\ payments'[i][p].order_id = payments[i][p].order_id
           /\ payments'[i][p].user_id = payments[i][p].user_id
           /\ payments'[i][p].amount = payments[i][p].amount
           /\ payments'[i][p].transaction_id = payments[i][p].transaction_id
           /\ \/ payments'[i][p].status = payments[i][p].status
              \/ /\ payments[i][p].status = "SUCCESS"
                 /\ payments'[i][p].status = "REFUNDED"]_vars

\* a refund was accepted while a FAILED payment and a REFUNDED one are stored
C40_Witness ==
    /\ lastOp.op = "RefundPayment"
    /\ lastOp.code = "OK"
    /\ \E p \in DOMAIN payments["serving"] : payments["serving"][p].status = "FAILED"
    /\ \E p \in DOMAIN payments["serving"] : payments["serving"][p].status = "REFUNDED"

\* C37: GetUserNotifications answers with the stored notifications of the
\* user at positions offset .. offset + limit - 1 (counted from 0) in
\* insertion order, a limit <= 0 taken as 10 and a negative offset as 0,
\* with total the number stored for the user, and stores nothing.
C37_NotificationsPage ==
    [][lastOp'.op = "GetUserNotifications"
       => LET request == lastOp'.arg
              stored == IF request.user_id \in DOMAIN notifications
                        THEN notifications[request.user_id] ELSE << >>
              limit == IF request.limit <= 0 THEN 10 ELSE request.limit
              offset == IF request.offset < 0 THEN 0 ELSE request.offset
              left == Len(stored) - offset
              n == IF left <= 0 THEN 0 ELSE IF left < limit THEN left ELSE limit
              shown == lastOp'.response.notifications
          IN /\ Len(shown) = n
             /\ \A k \in 1 .. n : shown[k] = stored[offset + k]
             /\ lastOp'.response.total = Len(stored)
             /\ notifications' = notifications]_vars

\* an inbox of 12 was asked for with limit 0 from offset 2, and 10 came back
C37_Witness ==
    /\ lastOp.op = "GetUserNotifications"
    /\ lastOp.arg.limit = 0
    /\ lastOp.arg.offset = 2
    /\ lastOp.response.total = 12
    /\ Len(lastOp.response.notifications) = 10

\* C33: orders are never deleted: the stored order ids only grow, and only
\* by CreateOrder; GetOrder succeeds, with the stored record, on every id
\* that is stored (so on every id CreateOrder has returned) and fails with
\* NOT_FOUND on an id that was never created.
C33_OrdersNeverDeleted ==
    [][/\ \A i \in Inst : DOMAIN orders[i] \subseteq DOMAIN orders'[i]
       /\ (\E i \in Inst : DOMAIN orders'[i] # DOMAIN orders[i])
              => lastOp'.op = "CreateOrder"
       /\ lastOp'.op = "GetOrder"
              => IF lastOp'.order_id \in DOMAIN orders["serving"]
                 THEN /\ lastOp'.code = "OK"
                      /\ lastOp'.response = orders["serving"][lastOp'.order_id]
                 ELSE lastOp'.code = "NOT_FOUND"]_vars

\* GetOrder has returned the order CreateOrder made, after it was cancelled
C33_Witness ==
    /\ lastOp.op = "GetOrder"
    /\ lastOp.code = "OK"
    /\ lastOp.order_id = FirstOrderId + 2
    /\ lastOp.response.status = "CANCELLED"

\* C34: UpdateOrderStatus and CancelOrder on an order id that is not
\* stored, and GetPayment and RefundPayment on a payment id that is not
\* stored, fail with NOT_FOUND, store and change nothing and publish
\* nothing; UpdateOrderStatus with a status that is none of the five
\* fails and leaves the order as it is.
C34_UnknownIdNoEffect ==
    [][/\ (/\ lastOp'.op \in {"UpdateOrderStatus", "CancelOrder"}
           /\ lastOp'.order_id \notin DOMAIN orders["serving"])
          => (/\ lastOp'.code = "NOT_FOUND"
              /\ lastOp'.emitted = << >>
              /\ UNCHANGED <<orders, order_counter, payments>>)
       /\ (/\ lastOp'.op \in {"GetPayment", "RefundPayment"}
           /\ lastOp'.arg \notin DOMAIN payments["serving"])
          => (/\ lastOp'.code = "NOT_FOUND"
              /\ lastOp'.emitted = << >>
              /\ UNCHANGED <<orders, order_counter, payments>>)
       /\ (/\ lastOp'.op = "UpdateOrderStatus"
           /\ lastOp'.order_id \in DOMAIN orders["serving"]
           /\ lastOp'.arg \notin {"PENDING", "PROCESSING", "SHIPPED",
                                  "DELIVERED", "CANCELLED"})
          => (/\ lastOp'.code # "OK"
              /\ lastOp'.emitted = << >>
              /\ UNCHANGED <<orders, order_counter, payments>>)]_vars

\* a refund was asked for a payment id the serving instance does not hold,
\* while it holds a payment made since it started
C34_Witness ==
    /\ lastOp.op = "RefundPayment"
    /\ lastOp.code = "NOT_FOUND"
    /\ lastOp.arg \notin DOMAIN payments["serving"]
    /\ 5 \in DOMAIN payments["serving"]

\* C39: once the ledger has handled the payment outcome of a PENDING order,
\* GetOrder reports CONFIRMED after payment.success and FAILED after
\* payment.failed.
C39_ConfirmedOrFailed ==
    [][(/\ lastOp'.op = "GetOrder"
        /\ lastOp'.code = "OK"
        /\ lastOp.op \in {"handle_payment_success", "handle_payment_failure"}
        /\ lastOp.inst = "serving"
        /\ lastOp.old_status = "PENDING"
        /\ lastOp.order_id = lastOp'.order_id)
       => lastOp'.response.status =
              IF lastOp.op = "handle_payment_success" THEN "CONFIRMED"
              ELSE "FAILED"]_vars

\* the handlers of the Order Ledger that write a status
LedgerOps == {"CreateOrder", "UpdateOrderStatus", "CancelOrder",
              "handle_payment_success", "handle_payment_failure"}

\* C38: state is stored before it is announced: an order named by a
\* published lifecycle event is stored with the status the event names;
\* and every order a handler created or gave another status has a
\* lifecycle event naming that status published by the handler, even when
\* a publish attempt fails.
C38_StoredThenAnnounced ==
    [][lastOp'.op \in LedgerOps
       => LET i == lastOp'.inst
              sent == lastOp'.emitted
          IN /\ \A k \in 1 .. Len(sent) :
                    /\ sent[k].order_id \in DOMAIN orders'[i]
                    /\ orders'[i][sent[k].order_id].status = sent[k].status
             /\ \A o \in DOMAIN orders'[i] :
                    (\/ o \notin DOMAIN orders[i]
                     \/ orders'[i][o].status # orders[i][o].status)
                    => \E k \in 1 .. Len(sent) :
                           /\ sent[k].order_id = o
                           /\ sent[k].status = orders'[i][o].status]_vars

\* C31: no order is charged successfully twice: a PaymentService instance
\* never holds two payment records with status SUCCESS for one order_id.
C31_ChargedAtMostOnce ==
    \A i \in Inst : \A p, q \in DOMAIN payments[i] :
        (/\ payments[i][p].status = "SUCCESS"
         /\ payments[i][q].status = "SUCCESS"
         /\ payments[i][p].order_id = payments[i][q].order_id)
        => p = q

\* C32: when ProcessPayment fails in the saga demo, the demo answers
\* 'order_status: CANCELLED' and the order is then stored as CANCELLED.
C32_DemoReportsTheTruth ==
    [][(/\ DemoThread \in DOMAIN threads
        /\ threads[DemoThread].pc = "pay"
        /\ threads'[DemoThread].pc = "done"
        /\ lastOp'.code # "OK")
       => (/\ threads'[DemoThread].code = "400 order_status: CANCELLED"
           /\ orders'["serving"][threads'[DemoThread].order_id].status =
                  "CANCELLED")]_vars

====
